---- MODULE Spec2Model ----
(***************************************************************************)
(* A model of proxy_function (src/function_proxy.py): the remapping of a   *)
(* call written for superfunc into the positional and named values of a    *)
(* call of subfunc, by parameter name and an override mapping.             *)
(*                                                                         *)
(* Python values are tagged records; a dict is an object on the heap (a    *)
(* function from names to values) and a dict value holds its reference, so *)
(* that aliasing and mutation are visible. Each statement of the function  *)
(* is one action; pc names the statement about to run.                     *)
(***************************************************************************)
EXTENDS Integers, Sequences, FiniteSets, TLC

VARIABLES subfunc, superfunc, args, heap, old, pc, subfunc_specs,
          superfunc_arg_values, context_args, context_kwargs, idx, err, result

vars == <<subfunc, superfunc, args, heap, old, pc, subfunc_specs,
          superfunc_arg_values, context_args, context_kwargs, idx, err, result>>

(* ------------------------------ values -------------------------------- *)

None == ""

IntVal(n) == [kind |-> "int", n |-> n, s |-> "", items |-> <<>>, ref |-> None]

StrVal(s) == [kind |-> "str", n |-> 0, s |-> s, items |-> <<>>, ref |-> None]

TupleVal(items) == [kind |-> "tuple", n |-> 0, s |-> "", items |-> items, ref |-> None]

DictVal(ref) == [kind |-> "dict", n |-> 0, s |-> "", items |-> <<>>, ref |-> ref]

NoneVal == [kind |-> "none", n |-> 0, s |-> "", items |-> <<>>, ref |-> None]

EmptyDict == [x \in {} |-> IntVal(0)]

SetItem(d, k, v) == [x \in DOMAIN d \cup {k} |-> IF x = k THEN v ELSE d[x]]

Range(s) == {s[i] : i \in DOMAIN s}

IndexOf(s, x) == CHOOSE i \in DOMAIN s : s[i] = x

Min(x, y) == IF x < y THEN x ELSE y

\* The order in which the keys of every dict of the model were inserted.
NameOrder == <<"a", "b", "c", "k", "j", "i", "r", "kw">>

Keys(d) == SelectSeq(NameOrder, LAMBDA x : x \in DOMAIN d)

(* ------------------------- declared signatures ------------------------ *)

\* inspect.getfullargspec: the defaults of the trailing positional parameters as a
\* tuple (None, here the empty tuple, when there are none; both are falsy), and the
\* keyword-only defaults as a dict, or None when no keyword-only parameter has one.
getfullargspec(func) ==
  [args |-> func.args,
   varargs |-> func.varargs,
   varkw |-> func.varkw,
   defaults |-> func.defaults,
   kwonlyargs |-> func.kwonlyargs,
   kwonlydefaults |-> [none |-> DOMAIN func.kwonlydefaults = {},
                       dict |-> func.kwonlydefaults]]

\* inspect.getcallargs: the standard binding of a call's positional and named values
\* to the parameters of func. ok is FALSE where the call raises TypeError. The values
\* collected under the rest-keyword name are a fresh dict, kw, referenced as ref.
getcallargs(func, positional, named, ref) ==
  LET num_pos == Len(positional)
      num_args == Len(func.args)
      num_defaults == Len(func.defaults)
      n == Min(num_pos, num_args)
      possible_kwargs == Range(func.args) \cup Range(func.kwonlyargs)
      bound_pos == {func.args[i] : i \in 1..n}
      extra_kw == DOMAIN named \ possible_kwargs
      given == bound_pos \cup (DOMAIN named \cap possible_kwargs)
      defaulted == {func.args[i] : i \in (num_args - num_defaults + 1)..num_args} \ given
      kwdefaulted == (Range(func.kwonlyargs) \cap DOMAIN func.kwonlydefaults) \ given
      collectors == (IF func.varargs # None THEN {func.varargs} ELSE {})
                    \cup (IF func.varkw # None THEN {func.varkw} ELSE {})
      value(x) ==
        IF x \in bound_pos THEN positional[IndexOf(func.args, x)]
        ELSE IF x \in DOMAIN named \cap possible_kwargs THEN named[x]
        ELSE IF x \in defaulted
          THEN func.defaults[IndexOf(func.args, x) - (num_args - num_defaults)]
        ELSE IF x \in kwdefaulted THEN func.kwonlydefaults[x]
        ELSE IF x = func.varargs THEN TupleVal(SubSeq(positional, n + 1, num_pos))
        ELSE DictVal(ref)
  IN [ok |-> /\ extra_kw # {} => func.varkw # None
             /\ bound_pos \cap DOMAIN named = {}
             /\ num_pos > num_args => func.varargs # None
             /\ Range(func.args) \subseteq given \cup defaulted
             /\ Range(func.kwonlyargs) \subseteq given \cup kwdefaulted,
      arg2value |-> [x \in given \cup defaulted \cup kwdefaulted \cup collectors |-> value(x)],
      kw |-> [x \in extra_kw |-> named[x]]]

(* ------------------------ statements of the code ---------------------- *)

NoError == [kind |-> "", what |-> "", name |-> None]

NoResult == [args |-> <<>>, kwargs |-> None]

NoSpecs ==
  [args |-> <<>>, varargs |-> None, varkw |-> None, defaults |-> <<>>,
   kwonlyargs |-> <<>>, kwonlydefaults |-> [none |-> TRUE, dict |-> EmptyDict]]

\* As dict_update, but an entry of d is kept where mapping has the name too.
dict_update_keeping(d, mapping) ==
  [x \in DOMAIN d \cup DOMAIN mapping |-> IF x \in DOMAIN d THEN d[x] ELSE mapping[x]]

\* dict.update: every entry of mapping replaces or adds to d.
dict_update(d, mapping) ==
  [x \in DOMAIN d \cup DOMAIN mapping |-> IF x \in DOMAIN mapping THEN mapping[x] ELSE d[x]]

\* As arg_name_at, but the parameters are taken from the last to the first.
arg_name_at_reversed(specs, i) == specs.args[Len(specs.args) - i + 1]

\* Line 41: the parameters are taken in declaration order.
arg_name_at(specs, i) == specs.args[i]

\* Line 63: the keyword-only parameters are taken in declaration order.
kwarg_name_at(specs, i) == specs.kwonlyargs[i]

\* The zip of line 41 pairs the parameter at (1-based) position i with
\* default_num = len(args) - i.
default_num_of(specs, i) == Len(specs.args) - i

\* Line 46: the parameter is one of the trailing len(defaults) parameters.
has_default(specs, default_num) ==
  Len(specs.defaults) > 0 /\ default_num < Len(specs.defaults)

\* Line 49: defaults[default_num], the tuple indexed from 0.
default_value(specs, default_num) == specs.defaults[default_num + 1]

\* What the * of line 55 iterates: the items of a tuple, the keys of a dict. An int
\* is not iterable; no value of the model's inputs is a string.
iterable(v) == v.kind \in {"tuple", "dict"}

iterate(h, v) ==
  IF v.kind = "tuple" THEN v.items
  ELSE LET ks == Keys(h[v.ref]) IN [i \in DOMAIN ks |-> StrVal(ks[i])]

\* As concatenate, but the values come first.
concatenate_front(ctx, values) == values \o ctx

\* Line 55: [*context_args, *values].
concatenate(ctx, values) == ctx \o values

\* As dict_copy, but the dict itself is used, not a copy of it.
dict_alias(h, ref, new) == [ref |-> ref, heap |-> h]

\* Line 60: dict(**d) is a new dict object holding the entries of d.
dict_copy(h, ref, new) == [ref |-> new, heap |-> SetItem(h, new, h[ref])]

\* Lines 62: dict() is a new, empty dict object.
dict_new(h, new) == [ref |-> new, heap |-> SetItem(h, new, EmptyDict)]

missing_positional(arg_name) ==
  [kind |-> "ValueError", what |-> "Missing required positional argument", name |-> arg_name]

missing_keyword(kwarg_name) ==
  [kind |-> "ValueError", what |-> "Missing required keyword argument", name |-> kwarg_name]

type_error(what) == [kind |-> "TypeError", what |-> what, name |-> None]

values == heap[superfunc_arg_values]

Raise(e) ==
  /\ pc' = "raised"
  /\ err' = e

\* Line 33.
GetSpecs ==
  /\ pc = "specs"
  /\ subfunc_specs' = getfullargspec(subfunc)
  /\ pc' = "bind"
  /\ UNCHANGED <<subfunc, superfunc, args, heap, old, superfunc_arg_values,
                 context_args, context_kwargs, idx, err, result>>

\* Line 35, the call binds.
BindCall ==
  /\ pc = "bind"
  /\ LET b == getcallargs(superfunc, args, heap["kwargs"], "super_varkw")
         h == IF superfunc.varkw # None THEN SetItem(heap, "super_varkw", b.kw) ELSE heap
     IN /\ b.ok
        /\ heap' = SetItem(h, "superfunc_arg_values", b.arg2value)
  /\ superfunc_arg_values' = "superfunc_arg_values"
  /\ pc' = "mapping"
  /\ UNCHANGED <<subfunc, superfunc, args, old, subfunc_specs,
                 context_args, context_kwargs, idx, err, result>>

\* Line 35, the call does not bind: getcallargs raises.
BindError ==
  /\ pc = "bind"
  /\ ~getcallargs(superfunc, args, heap["kwargs"], "super_varkw").ok
  /\ Raise(type_error("getcallargs"))
  /\ UNCHANGED <<subfunc, superfunc, args, heap, old, subfunc_specs,
                 superfunc_arg_values, context_args, context_kwargs, idx, result>>

\* Lines 36-39.
ApplyMapping ==
  /\ pc = "mapping"
  /\ heap' = IF DOMAIN heap["mapping"] # {}
               THEN [heap EXCEPT ![superfunc_arg_values] = dict_update(@, heap["mapping"])]
               ELSE heap
  /\ context_args' = <<>>
  /\ idx' = 1
  /\ pc' = "positional"
  /\ UNCHANGED <<subfunc, superfunc, args, old, subfunc_specs,
                 superfunc_arg_values, context_kwargs, err, result>>

\* Lines 41-43.
PositionalFound ==
  /\ pc = "positional"
  /\ idx <= Len(subfunc_specs.args)
  /\ arg_name_at(subfunc_specs, idx) \in DOMAIN values
  /\ context_args' = Append(context_args, values[arg_name_at(subfunc_specs, idx)])
  /\ idx' = idx + 1
  /\ UNCHANGED <<subfunc, superfunc, args, heap, old, pc, subfunc_specs,
                 superfunc_arg_values, context_kwargs, err, result>>

\* Lines 46-49.
PositionalDefault ==
  /\ pc = "positional"
  /\ idx <= Len(subfunc_specs.args)
  /\ arg_name_at(subfunc_specs, idx) \notin DOMAIN values
  /\ has_default(subfunc_specs, default_num_of(subfunc_specs, idx))
  /\ context_args' =
       Append(context_args, default_value(subfunc_specs, default_num_of(subfunc_specs, idx)))
  /\ idx' = idx + 1
  /\ UNCHANGED <<subfunc, superfunc, args, heap, old, pc, subfunc_specs,
                 superfunc_arg_values, context_kwargs, err, result>>

\* As PositionalMissing, but None stands for the missing value and the loop goes on.
PositionalMissingAsNone ==
  /\ pc = "positional"
  /\ idx <= Len(subfunc_specs.args)
  /\ arg_name_at(subfunc_specs, idx) \notin DOMAIN values
  /\ ~has_default(subfunc_specs, default_num_of(subfunc_specs, idx))
  /\ context_args' = Append(context_args, NoneVal)
  /\ idx' = idx + 1
  /\ UNCHANGED <<subfunc, superfunc, args, heap, old, pc, subfunc_specs,
                 superfunc_arg_values, context_kwargs, err, result>>

\* Lines 50-51.
PositionalMissing ==
  /\ pc = "positional"
  /\ idx <= Len(subfunc_specs.args)
  /\ arg_name_at(subfunc_specs, idx) \notin DOMAIN values
  /\ ~has_default(subfunc_specs, default_num_of(subfunc_specs, idx))
  /\ Raise(missing_positional(arg_name_at(subfunc_specs, idx)))
  /\ UNCHANGED <<subfunc, superfunc, args, heap, old, subfunc_specs,
                 superfunc_arg_values, context_args, context_kwargs, idx, result>>

\* Line 41, the loop is over.
PositionalDone ==
  /\ pc = "positional"
  /\ idx > Len(subfunc_specs.args)
  /\ pc' = "varargs"
  /\ UNCHANGED <<subfunc, superfunc, args, heap, old, subfunc_specs,
                 superfunc_arg_values, context_args, context_kwargs, idx, err, result>>

\* Lines 53-55, the values can be iterated.
VarargsSpread ==
  /\ pc = "varargs"
  /\ subfunc_specs.varargs # None
  /\ subfunc_specs.varargs \in DOMAIN values
  /\ iterable(values[subfunc_specs.varargs])
  /\ context_args' = concatenate(context_args, iterate(heap, values[subfunc_specs.varargs]))
  /\ pc' = "varkw"
  /\ UNCHANGED <<subfunc, superfunc, args, heap, old, subfunc_specs,
                 superfunc_arg_values, context_kwargs, idx, err, result>>

\* Line 55, the value under the name cannot be iterated: the * raises TypeError.
VarargsError ==
  /\ pc = "varargs"
  /\ subfunc_specs.varargs # None
  /\ subfunc_specs.varargs \in DOMAIN values
  /\ ~iterable(values[subfunc_specs.varargs])
  /\ Raise(type_error("Value after * must be an iterable"))
  /\ UNCHANGED <<subfunc, superfunc, args, heap, old, subfunc_specs,
                 superfunc_arg_values, context_args, context_kwargs, idx, result>>

\* Lines 53 and 56: no rest-positional name, or no value under it.
VarargsSkip ==
  /\ pc = "varargs"
  /\ ~(subfunc_specs.varargs # None /\ subfunc_specs.varargs \in DOMAIN values)
  /\ pc' = "varkw"
  /\ UNCHANGED <<subfunc, superfunc, args, heap, old, subfunc_specs,
                 superfunc_arg_values, context_args, context_kwargs, idx, err, result>>

\* Lines 58-60, the value is a dict.
VarkwUnpack ==
  /\ pc = "varkw"
  /\ subfunc_specs.varkw # None
  /\ subfunc_specs.varkw \in DOMAIN values
  /\ values[subfunc_specs.varkw].kind = "dict"
  /\ LET c == dict_copy(heap, values[subfunc_specs.varkw].ref, "context_kwargs")
     IN /\ heap' = c.heap
        /\ context_kwargs' = c.ref
  /\ idx' = 1
  /\ pc' = "kwonly"
  /\ UNCHANGED <<subfunc, superfunc, args, old, subfunc_specs,
                 superfunc_arg_values, context_args, err, result>>

\* Line 60, the value under the name is no mapping: the ** raises TypeError.
VarkwError ==
  /\ pc = "varkw"
  /\ subfunc_specs.varkw # None
  /\ subfunc_specs.varkw \in DOMAIN values
  /\ values[subfunc_specs.varkw].kind # "dict"
  /\ Raise(type_error("argument after ** must be a mapping"))
  /\ UNCHANGED <<subfunc, superfunc, args, heap, old, subfunc_specs,
                 superfunc_arg_values, context_args, context_kwargs, idx, result>>

\* Lines 61-62.
VarkwEmpty ==
  /\ pc = "varkw"
  /\ ~(subfunc_specs.varkw # None /\ subfunc_specs.varkw \in DOMAIN values)
  /\ LET c == dict_new(heap, "context_kwargs")
     IN /\ heap' = c.heap
        /\ context_kwargs' = c.ref
  /\ idx' = 1
  /\ pc' = "kwonly"
  /\ UNCHANGED <<subfunc, superfunc, args, old, subfunc_specs,
                 superfunc_arg_values, context_args, err, result>>

\* Lines 63-65.
KwonlyFound ==
  /\ pc = "kwonly"
  /\ idx <= Len(subfunc_specs.kwonlyargs)
  /\ kwarg_name_at(subfunc_specs, idx) \in DOMAIN values
  /\ heap' = [heap EXCEPT ![context_kwargs] =
                SetItem(@, kwarg_name_at(subfunc_specs, idx), values[kwarg_name_at(subfunc_specs, idx)])]
  /\ idx' = idx + 1
  /\ UNCHANGED <<subfunc, superfunc, args, old, pc, subfunc_specs,
                 superfunc_arg_values, context_args, context_kwargs, err, result>>

\* Line 66 with kwonlydefaults None: the test "in None" raises TypeError.
KwonlyNoneError ==
  /\ pc = "kwonly"
  /\ idx <= Len(subfunc_specs.kwonlyargs)
  /\ kwarg_name_at(subfunc_specs, idx) \notin DOMAIN values
  /\ subfunc_specs.kwonlydefaults.none
  /\ Raise(type_error("argument of type 'NoneType' is not iterable"))
  /\ UNCHANGED <<subfunc, superfunc, args, heap, old, subfunc_specs,
                 superfunc_arg_values, context_args, context_kwargs, idx, result>>

\* Lines 66-67.
KwonlyDefault ==
  /\ pc = "kwonly"
  /\ idx <= Len(subfunc_specs.kwonlyargs)
  /\ kwarg_name_at(subfunc_specs, idx) \notin DOMAIN values
  /\ ~subfunc_specs.kwonlydefaults.none
  /\ kwarg_name_at(subfunc_specs, idx) \in DOMAIN subfunc_specs.kwonlydefaults.dict
  /\ heap' = [heap EXCEPT ![context_kwargs] =
                SetItem(@, kwarg_name_at(subfunc_specs, idx),
                        subfunc_specs.kwonlydefaults.dict[kwarg_name_at(subfunc_specs, idx)])]
  /\ idx' = idx + 1
  /\ UNCHANGED <<subfunc, superfunc, args, old, pc, subfunc_specs,
                 superfunc_arg_values, context_args, context_kwargs, err, result>>

\* Lines 68-69.
KwonlyMissing ==
  /\ pc = "kwonly"
  /\ idx <= Len(subfunc_specs.kwonlyargs)
  /\ kwarg_name_at(subfunc_specs, idx) \notin DOMAIN values
  /\ ~subfunc_specs.kwonlydefaults.none
  /\ kwarg_name_at(subfunc_specs, idx) \notin DOMAIN subfunc_specs.kwonlydefaults.dict
  /\ Raise(missing_keyword(kwarg_name_at(subfunc_specs, idx)))
  /\ UNCHANGED <<subfunc, superfunc, args, heap, old, subfunc_specs,
                 superfunc_arg_values, context_args, context_kwargs, idx, result>>

\* Line 70, reached when the loop of line 63 is over.
Return ==
  /\ pc = "kwonly"
  /\ idx > Len(subfunc_specs.kwonlyargs)
  /\ result' = [args |-> context_args, kwargs |-> context_kwargs]
  /\ pc' = "returned"
  /\ UNCHANGED <<subfunc, superfunc, args, heap, old, subfunc_specs,
                 superfunc_arg_values, context_args, context_kwargs, idx, err>>

Next ==
  \/ GetSpecs
  \/ BindCall
  \/ BindError
  \/ ApplyMapping
  \/ PositionalFound
  \/ PositionalDefault
  \/ PositionalMissing
  \/ PositionalDone
  \/ VarargsSpread
  \/ VarargsError
  \/ VarargsSkip
  \/ VarkwUnpack
  \/ VarkwError
  \/ VarkwEmpty
  \/ KwonlyFound
  \/ KwonlyNoneError
  \/ KwonlyDefault
  \/ KwonlyMissing
  \/ Return

(* ------------------------------- inputs ------------------------------- *)

\* The most positional parameters a signature declares.
MaxPos == 2

\* The most positional values a call passes.
MaxCallArgs == 3

NameIndex(x) == IndexOf(NameOrder, x)

DistinctSeqs(S, n) ==
  UNION {{s \in [1..m -> S] : \A i, j \in 1..m : s[i] = s[j] => i = j} : m \in 0..n}

\* The signatures def can declare over the given names, with one of the given numbers
\* of defaults: the defaults are those of the trailing positional parameters. No
\* parameter is positional-only (the docstring's functions have none). Every
\* default is a distinct int, base tells those of one signature from those of another.
Signatures(pos, maxPos, nds, vas, kws, vks, base) ==
  {[args |-> a,
    defaults |-> [j \in 1..nd |-> IntVal(base + j)],
    varargs |-> va,
    kwonlyargs |-> ko,
    kwonlydefaults |-> [x \in kd |-> IntVal(base + 10 + NameIndex(x))],
    varkw |-> vk] :
     a \in DistinctSeqs(pos, maxPos), nd \in nds, va \in vas,
     ko \in DistinctSeqs(kws, Cardinality(kws)), kd \in SUBSET kws, vk \in vks}

WellFormed(f) ==
  /\ Len(f.defaults) <= Len(f.args)
  /\ DOMAIN f.kwonlydefaults \subseteq Range(f.kwonlyargs)
  /\ Range(f.args) \cap Range(f.kwonlyargs) = {}
  /\ f.varargs # None => f.varargs \notin Range(f.args) \cup Range(f.kwonlyargs)
  /\ f.varkw # None => f.varkw \notin Range(f.args) \cup Range(f.kwonlyargs) \cup {f.varargs}

\* The positional values of a call: the i-th is the int i, but for the first, which is
\* drawn from firsts.
Positionals(firsts) ==
  {[i \in 1..m |-> IF i = 1 THEN f ELSE IntVal(i)] : m \in 0..MaxCallArgs, f \in firsts}

\* The dicts with at most n of the keys, each key with its own int.
Dicts(keys, n, base) ==
  {[x \in D |-> IntVal(base + NameIndex(x))] : D \in {D \in SUBSET keys : Cardinality(D) <= n}}

ATuple == TupleVal(<<IntVal(31), IntVal(32)>>)

\* The override mappings: empty, or one name with an int, a tuple or the caller's dict.
Mappings(names, vals) ==
  {EmptyDict} \cup {[x \in {n} |-> IF v = IntVal(0) THEN IntVal(60 + NameIndex(n)) ELSE v] :
                      n \in names, v \in vals}

Refers(inp) ==
  \/ \E x \in DOMAIN inp.mapping : inp.mapping[x].kind = "dict"
  \/ \E i \in DOMAIN inp.args : inp.args[i].kind = "dict"

\* A call that does not bind ends at line 35 whatever subfunc and the overrides are:
\* such calls are drawn with a subfunc without parameters and no overrides.
Binds(inp) ==
  \/ getcallargs(inp.super, inp.args, inp.kwargs, "super_varkw").ok
  \/ inp.mapping = EmptyDict /\ inp.sub.args = <<>> /\ inp.sub.kwonlyargs = <<>>

\* The signature of the docstring's superfunc: lambda x, y, z, **kwargs.
DocSuper ==
  [args |-> <<"a", "b", "c">>, defaults |-> <<>>, varargs |-> None,
   kwonlyargs |-> <<>>, kwonlydefaults |-> EmptyDict, varkw |-> "kw"]

\* Signatures, calls and overrides over named parameters: order, defaults, missing
\* parameters.
NamedInputs ==
  {inp \in
     [sub : Signatures({"a", "b", "c"}, MaxPos, 0..MaxPos, {None}, {"k"}, {None}, 100)
              \cup Signatures({"a"}, 1, 0..1, {None}, {"k", "j", "i"}, {None}, 100),
      super : Signatures({"a", "b"}, MaxPos, {0}, {None}, {"k"}, {None}, 400)
                \cup {DocSuper},
      args : Positionals({IntVal(1)}),
      kwargs : Dicts({"b", "k", "j"}, 1, 50),
      mapping : Mappings({"a", "k"}, {IntVal(0)}),
      caller_dict : {EmptyDict}] :
     WellFormed(inp.sub) /\ WellFormed(inp.super) /\ Binds(inp)}

\* An override given for a rest collector of subfunc is a collection of the collector's
\* kind: a tuple for the rest-positional one, a dict for the rest-keyword one.
Typed(inp) ==
  /\ inp.sub.varargs \in DOMAIN inp.mapping => inp.mapping[inp.sub.varargs].kind = "tuple"
  /\ inp.sub.varkw \in DOMAIN inp.mapping => inp.mapping[inp.sub.varkw].kind = "dict"

\* Signatures, calls and overrides with rest collectors, where a name can be a
\* collector of one signature and something else in the other.
CollectorInputs ==
  {inp \in
     [sub : Signatures({"a"}, 1, 0..1, {None, "r", "kw"}, {"k"}, {None, "kw", "r"}, 100),
      super : Signatures({"a", "r", "kw"}, 1, {0}, {None, "r"}, {}, {None, "kw"}, 400),
      args : Positionals({IntVal(1), ATuple, DictVal("caller_dict")}),
      kwargs : Dicts({"a", "j"}, 1, 50),
      mapping : Mappings({"r", "kw"}, {IntVal(0), ATuple, DictVal("caller_dict")})
                  \cup Mappings({"a"}, {IntVal(0)}),
      caller_dict : Dicts({"a", "k"}, 1, 70)] :
     /\ WellFormed(inp.sub) /\ WellFormed(inp.super) /\ Binds(inp)
     /\ Typed(inp)
     /\ Refers(inp) \/ inp.caller_dict = EmptyDict}

Inputs == NamedInputs \cup CollectorInputs

Init ==
  /\ \E inp \in Inputs :
       /\ subfunc = inp.sub
       /\ superfunc = inp.super
       /\ args = inp.args
       /\ heap = [x \in {"mapping", "kwargs", "caller_dict"} |->
                    IF x = "mapping" THEN inp.mapping
                    ELSE IF x = "kwargs" THEN inp.kwargs ELSE inp.caller_dict]
  /\ old = [heap |-> heap, args |-> args]
  /\ pc = "specs"
  /\ subfunc_specs = NoSpecs
  /\ superfunc_arg_values = None
  /\ context_args = <<>>
  /\ context_kwargs = None
  /\ idx = 0
  /\ err = NoError
  /\ result = NoResult

Spec == Init /\ [][Next]_vars

(* --------------------- vocabulary of the properties ------------------- *)

\* The Bound Argument Set of the call, before the overrides.
Bound == getcallargs(superfunc, old.args, old.heap["kwargs"], "super_varkw")

Overrides == old.heap["mapping"]

\* The Bound Argument Set after the overrides.
After ==
  [x \in DOMAIN Bound.arg2value \cup DOMAIN Overrides |->
     IF x \in DOMAIN Overrides THEN Overrides[x] ELSE Bound.arg2value[x]]

Terminal == pc \in {"returned", "raised"}

SubNames ==
  Range(subfunc.args) \cup Range(subfunc.kwonlyargs)
    \cup (IF subfunc.varargs # None THEN {subfunc.varargs} ELSE {})
    \cup (IF subfunc.varkw # None THEN {subfunc.varkw} ELSE {})

HasDeclaredDefault(f, i) == i > Len(f.args) - Len(f.defaults)

DeclaredDefault(f, i) == f.defaults[i - (Len(f.args) - Len(f.defaults))]

\* The positions of the positional parameters of subfunc with no value anywhere.
MissingPos ==
  {i \in 1..Len(subfunc.args) :
     subfunc.args[i] \notin DOMAIN After /\ ~HasDeclaredDefault(subfunc, i)}

\* The positions of the keyword-only parameters of subfunc with no value anywhere.
MissingKw ==
  {i \in 1..Len(subfunc.kwonlyargs) :
     /\ subfunc.kwonlyargs[i] \notin DOMAIN After
     /\ subfunc.kwonlyargs[i] \notin DOMAIN subfunc.kwonlydefaults}

MinOf(S) == CHOOSE x \in S : \A y \in S : x <= y

\* The first missing parameter in the processing order.
FirstMissing ==
  IF MissingPos # {} THEN subfunc.args[MinOf(MissingPos)]
  ELSE subfunc.kwonlyargs[MinOf(MissingKw)]

\* The returned values bound against subfunc.
SubBinding == getcallargs(subfunc, result.args, heap[result.kwargs], "sub_varkw")

\* The positional values of the call beyond the positional parameters of superfunc.
Extras == SubSeq(old.args, Len(superfunc.args) + 1, Len(old.args))

Beyond(s, n) == SubSeq(s, n + 1, Len(s))

(* ------------------------------ properties ---------------------------- *)

\* C1: when the call binds and every parameter name of subfunc is in the Bound
\* Argument Set, proxy_function returns, and the returned values bound against
\* subfunc give each parameter the value stored under its name after the overrides.
C1_BindsByName ==
  (Terminal /\ Bound.ok /\ SubNames \subseteq DOMAIN Bound.arg2value) =>
    /\ pc = "returned"
    /\ SubBinding.ok
    /\ \A n \in SubNames :
         IF n = subfunc.varkw /\ After[n].kind = "dict"
           THEN SubBinding.kw = heap[After[n].ref]
           ELSE SubBinding.arg2value[n] = After[n]

\* C3: the returned values are a valid call of subfunc.
C3_ValidCall == pc = "returned" => SubBinding.ok

\* C7: a positional parameter of subfunc absent from the Bound Argument Set gets its
\* own declared default at its position.
C7_OwnDefault ==
  Bound.ok =>
    \A i \in 1..Min(Len(context_args), Len(subfunc.args)) :
      (subfunc.args[i] \notin DOMAIN After /\ HasDeclaredDefault(subfunc, i)) =>
        context_args[i] = DeclaredDefault(subfunc, i)

C4_MissingPositional ==
  (Bound.ok /\ MissingPos # {}) =>
    /\ pc \in {"specs", "bind", "mapping", "positional", "raised"}
    /\ Len(context_args) < MinOf(MissingPos)
    /\ pc = "raised" =>
         /\ err.kind = "ValueError"
         /\ err.what = "Missing required positional argument"
         /\ err.name = subfunc.args[MinOf(MissingPos)]
    /\ (pc = "positional" /\ idx = MinOf(MissingPos)) => ENABLED PositionalMissing

\* The scenario sub(a, b), super(b), no overrides, one positional value: the error
\* names a.
C4_Witness ==
  /\ subfunc.args = <<"a", "b">> /\ subfunc.defaults = <<>>
  /\ superfunc.args = <<"b">> /\ superfunc.kwonlyargs = <<>> /\ superfunc.varkw = None
  /\ Overrides = EmptyDict /\ Len(old.args) = 1
  /\ pc = "raised" /\ err.kind = "ValueError" /\ err.name = "a"

\* C5: a keyword-only parameter of subfunc with no default whose name is neither bound
\* nor overridden, the positional parameters being satisfied, makes the call fail
\* with the missing-argument error naming it. Stated of the first such parameter and
\* of the runs that reach the loop over the keyword-only parameters.
C5_MissingKeyword ==
  (Bound.ok /\ MissingPos = {} /\ MissingKw # {} /\ Terminal /\ context_kwargs # None) =>
    /\ pc = "raised"
    /\ err.kind = "ValueError"
    /\ err.what = "Missing required keyword argument"
    /\ err.name = subfunc.kwonlyargs[MinOf(MissingKw)]

\* C6 as claimed: with several missing parameters the missing-argument error names
\* every one of them.
C6_NamesEvery ==
  (Bound.ok /\ Cardinality(MissingPos) + Cardinality(MissingKw) >= 2
     /\ pc = "raised" /\ err.kind = "ValueError") =>
    /\ \A i \in MissingPos : err.name = subfunc.args[i]
    /\ \A i \in MissingKw : err.name = subfunc.kwonlyargs[i]

\* C6 as amended: with several missing parameters no result is returned, and a
\* missing-argument error names one parameter, the first missing one in the
\* processing order; it is raised whenever a positional parameter is missing.
C6_NamesFirst ==
  (Bound.ok /\ Cardinality(MissingPos) + Cardinality(MissingKw) >= 2) =>
    /\ pc # "returned"
    /\ (pc = "raised" /\ err.kind = "ValueError") => err.name = FirstMissing
    /\ (pc = "raised" /\ MissingPos # {}) => err.kind = "ValueError"

\* A positional and a keyword-only parameter are missing and the error is raised.
C6_Witness ==
  /\ Bound.ok /\ MissingPos # {} /\ MissingKw # {}
  /\ pc = "raised" /\ err.kind = "ValueError" /\ err.name = FirstMissing

\* Two keyword-only parameters are missing and the error names the first.
C6_WitnessKeywords ==
  /\ Bound.ok /\ MissingPos = {} /\ Cardinality(MissingKw) >= 2
  /\ pc = "raised" /\ err.kind = "ValueError" /\ err.name = FirstMissing

\* C8: when superfunc and subfunc declare a rest-positional collector of the same
\* name, not overridden, the returned positional values are one value per positional
\* parameter of subfunc, in declaration order, then the extra positional values of the
\* call in their order; a collector of subfunc whose name has no value contributes
\* nothing and raises nothing.
C8_RestPassThrough ==
  /\ (pc = "returned" /\ subfunc.varargs # None /\ subfunc.varargs = superfunc.varargs
        /\ subfunc.varargs \notin DOMAIN Overrides) =>
       /\ Len(result.args) = Len(subfunc.args) + Len(Extras)
       /\ Beyond(result.args, Len(subfunc.args)) = Extras
       /\ \A i \in 1..Len(subfunc.args) :
            subfunc.args[i] \in DOMAIN After => result.args[i] = After[subfunc.args[i]]
  /\ (Bound.ok /\ subfunc.varargs # None /\ subfunc.varargs \notin DOMAIN After) =>
       /\ pc = "returned" => Len(result.args) = Len(subfunc.args)
       /\ pc = "raised" => err.what # "Value after * must be an iterable"
       /\ pc = "varargs" => ENABLED VarargsSkip

\* Two extra values pass through behind the value of a positional parameter.
C8_Witness ==
  /\ pc = "returned"
  /\ subfunc.varargs # None /\ subfunc.varargs = superfunc.varargs
  /\ subfunc.varargs \notin DOMAIN Overrides
  /\ Len(subfunc.args) >= 1 /\ Len(Extras) >= 2

\* C9: a rest collector of subfunc whose name is bound, in the Bound Argument Set, to
\* something else than a collector of the same kind of superfunc contributes nothing:
\* the value is neither spread into the positional values nor merged into the named
\* ones (and no attempt to do so fails).
C9_SameKindOnly ==
  Bound.ok =>
    /\ (subfunc.varargs # None /\ subfunc.varargs \in DOMAIN Bound.arg2value
          /\ subfunc.varargs \notin DOMAIN Overrides /\ subfunc.varargs # superfunc.varargs) =>
         /\ Len(context_args) <= Len(subfunc.args)
         /\ err.what # "Value after * must be an iterable"
    /\ (subfunc.varkw # None /\ subfunc.varkw \in DOMAIN Bound.arg2value
          /\ subfunc.varkw \notin DOMAIN Overrides /\ subfunc.varkw # superfunc.varkw) =>
         /\ pc = "returned" => DOMAIN heap[result.kwargs] \subseteq Range(subfunc.kwonlyargs)
         /\ err.what # "argument after ** must be a mapping"

\* C10: the inputs are unchanged in every state: the override mapping, the caller's
\* keyword arguments, the dicts the caller passed by reference, the positional
\* arguments; the dict collected under the rest-keyword name of superfunc keeps what
\* was collected; and the returned named values are a new dict.
C10_InputsUnchanged ==
  /\ \A o \in DOMAIN old.heap : heap[o] = old.heap[o]
  /\ args = old.args
  /\ "super_varkw" \in DOMAIN heap => heap["super_varkw"] = Bound.kw
  /\ pc = "returned" =>
       result.kwargs \notin DOMAIN old.heap \cup {"super_varkw", "superfunc_arg_values"}

\* A keyword-only value was added to named values that come from a dict supplied
\* through the overrides.
C10_Witness ==
  /\ pc = "returned"
  /\ subfunc.varkw \in DOMAIN Overrides
  /\ Overrides[subfunc.varkw] = DictVal("caller_dict")
  /\ old.heap["caller_dict"] # EmptyDict
  /\ DOMAIN heap[result.kwargs] # DOMAIN old.heap["caller_dict"]

\* The docstring's example (lines 12-27), x, y, z written a, b, c: subfunc(y, x),
\* superfunc(x, y, z, **kwargs), mapping {x: 61}, three positional values and one
\* named value return (y's value, the override of x) and no named value.
DocExample ==
  (/\ subfunc.args = <<"b", "a">> /\ subfunc.kwonlyargs = <<>>
   /\ superfunc = DocSuper
   /\ DOMAIN Overrides = {"a"} /\ Len(old.args) = 3 /\ DOMAIN old.heap["kwargs"] = {"j"}
   /\ Terminal) =>
    /\ pc = "returned"
    /\ result.args = <<IntVal(2), Overrides["a"]>>
    /\ heap[result.kwargs] = EmptyDict

DocExampleReached ==
  /\ subfunc.args = <<"b", "a">> /\ superfunc = DocSuper
  /\ DOMAIN Overrides = {"a"} /\ Len(old.args) = 3 /\ DOMAIN old.heap["kwargs"] = {"j"}
  /\ pc = "returned"
====
